---- MODULE Spec2Model ----
(***************************************************************************)
(* Model of the typeahead pipeline of SearchBarComponent                   *)
(* (client/src/app/services/search-api.service.ts).                        *)
(*                                                                         *)
(* Strings are sequences of characters so that trim() is computed, not     *)
(* assumed.  Time is counted in milliseconds; a timer is a remaining       *)
(* delay, Tick lets time pass up to the next deadline, and a due timer     *)
(* runs before more time passes.  The component runs on one thread, so     *)
(* every handler and every callback is one atomic action.                  *)
(*                                                                         *)
(* The template that binds the handlers is not part of the sources; the    *)
(* handlers are enabled while the component is alive (between ngOnInit     *)
(* and ngOnDestroy), and onSuggestionClick is called with one of the       *)
(* Suggestions the component holds in `suggestions`.                       *)
(***************************************************************************)
EXTENDS Integers, Sequences, FiniteSets, TLC

\* ---------------------------------------------------------------- bounds
MaxChanges == 2      \* input changes in one run
MaxClicks == 1       \* selections in one run
MaxBlurTimers == 1   \* blur timers pending at the same time

\* ------------------------------------------------------ program constants
DebounceMs == 250
BlurMs == 150
DefaultK == 10

\* ---------------------------------------------------------------- values
EmptyString == <<>>
\* Texts the user can leave in the input: "", " ", "a", "a " and "aa".
Inputs == {EmptyString, <<" ">>, <<"a">>, <<"a", " ">>, <<"a", "a">>}
Null == "null"

S1 == [text |-> <<"a">>, score |-> 9]
S2 == [text |-> <<"a", "a">>, score |-> 5]

\* Bodies a GET /suggest can answer with; hasSuggestions = FALSE is a body
\* without the field (res.suggestions is undefined).
Responses ==
  {[hasSuggestions |-> FALSE, suggestions |-> <<>>]} \cup
  {[hasSuggestions |-> TRUE, suggestions |-> ss] :
      ss \in {<<>>, <<S1, S2>>}}

RECURSIVE TrimStart(_)
TrimStart(s) ==
  IF Len(s) > 0 /\ Head(s) = " " THEN TrimStart(Tail(s)) ELSE s

RECURSIVE TrimEnd(_)
TrimEnd(s) ==
  IF Len(s) > 0 /\ s[Len(s)] = " " THEN TrimEnd(SubSeq(s, 1, Len(s) - 1)) ELSE s

Trim(s) == TrimEnd(TrimStart(s))

Min(S) == CHOOSE x \in S : \A y \in S : x <= y

\* Time passes in steps of the difference of the two delays, which lets a
\* blur timer end before, with or after a debounce timer started earlier.
TickMs == DebounceMs - BlurMs

Last(s) == s[Len(s)]

Range(s) == {s[i] : i \in 1..Len(s)}

VARIABLES
  phase,                   \* "constructed" | "alive" | "destroyed"
  sub,                     \* "none" | "open" | "unsubscribed" | "errored"
  searchControl,           \* searchControl.value
  suggestions,
  isOpen,
  lastQueryForImpression,
  lastCandidates,
  debounce,                \* debounceTime: pending value and remaining delay
  distinctPrev,            \* distinctUntilChanged: last value passed on
  activeInner,             \* switchMap: request subscribed to, 0 when none
  blurTimers,              \* remaining delays of the pending onBlur timers
  requests,                \* GET /suggest calls made, in order
  answered,                \* requests whose outcome has arrived
  failures,                \* requests among them that failed
  impressions,             \* ImpressionEvents posted, in order
  clicks,                  \* ClickEvents posted, in order
  applied,                 \* history: responses the result tap has run on
  lateStale,               \* history: requests answered after a newer one
                           \*   had its response applied
  selections,              \* history: onSuggestionClick calls
  nChanges,                \* history: number of input changes
  lastInput,               \* history: value of the latest input change
  sinceChange,             \* history: ms since that change, up to DebounceMs
  inBurst,                 \* history: inBurst[i] iff change i+1 came less
                           \*   than DebounceMs after change i
  reqChange,               \* history: reqChange[r] = change request r is for
  logPending,              \* POST /log_event calls not answered yet
  logFailed,               \* history: log calls that failed
  blurInfo,                \* history: for each pending onBlur timer, the ms
                           \*   since the call and isOpen at the call
  lateClose                \* history: the last assignment to isOpen was
                           \*   made by an onBlur timer and closed a panel
                           \*   opened after the onBlur call

vars == <<phase, sub, searchControl, suggestions, isOpen,
          lastQueryForImpression, lastCandidates, debounce, distinctPrev,
          activeInner, blurTimers, requests, answered, failures, impressions,
          clicks,
          applied, lateStale, selections, nChanges, lastInput, sinceChange,
          inBurst, reqChange, logPending, logFailed, blurInfo,
          lateClose>>

component == <<suggestions, isOpen, lastQueryForImpression, lastCandidates>>
pipeline == <<debounce, distinctPrev, activeInner>>
emitted == <<requests, impressions, clicks>>
network == <<answered, failures>>
inputHistory == <<nChanges, lastInput, sinceChange, inBurst>>
logging == <<logPending, logFailed>>
blurHistory == <<blurInfo, lateClose>>
history == <<applied, lateStale, selections, inputHistory, reqChange>>

NoTimer == [armed |-> FALSE, val |-> EmptyString, left |-> 0]
NoPrev == [has |-> FALSE, val |-> EmptyString]

Init ==
  /\ phase = "constructed"
  /\ sub = "none"
  /\ searchControl = EmptyString
  /\ suggestions = <<>>
  /\ isOpen = FALSE
  /\ lastQueryForImpression = EmptyString
  /\ lastCandidates = <<>>
  /\ debounce = NoTimer
  /\ distinctPrev = NoPrev
  /\ activeInner = 0
  /\ blurTimers = <<>>
  /\ requests = <<>>
  /\ answered = {}
  /\ failures = {}
  /\ impressions = <<>>
  /\ clicks = <<>>
  /\ applied = <<>>
  /\ lateStale = {}
  /\ selections = <<>>
  /\ nChanges = 0
  /\ lastInput = EmptyString
  /\ sinceChange = 0
  /\ inBurst = <<>>
  /\ reqChange = <<>>
  /\ logPending = {}
  /\ logFailed = {}
  /\ blurInfo = <<>>
  /\ lateClose = FALSE

\* Requests that have been sent and not answered yet.
InFlight == (1..Len(requests)) \ answered

ngOnInit ==
  /\ phase = "constructed"
  /\ phase' = "alive"
  /\ sub' = "open"
  /\ UNCHANGED <<searchControl, component, pipeline, blurTimers, emitted,
                 network, history, logging, blurHistory>>

\* Variant: a new value replaces the pending one but the running delay is
\* left as it is (the delay counts from the first value of a burst).
RescheduleKeepDelay(raw) ==
  [armed |-> TRUE, val |-> raw,
   left |-> IF debounce.armed THEN debounce.left ELSE DebounceMs]

\* debounceTime(250) on a new value: keep the value, restart the delay.
Reschedule(raw) == [armed |-> TRUE, val |-> raw, left |-> DebounceMs]

\* The user edits the input: valueChanges emits raw into the pipe.
onInputChanged(raw) ==
  /\ phase = "alive"
  /\ nChanges < MaxChanges
  /\ searchControl' = raw
  /\ debounce' = IF sub = "open" THEN Reschedule(raw) ELSE debounce
  /\ nChanges' = nChanges + 1
  /\ lastInput' = raw
  /\ sinceChange' = 0
  /\ inBurst' = IF nChanges > 0
                THEN Append(inBurst, sinceChange < DebounceMs)
                ELSE inBurst
  /\ UNCHANGED <<phase, sub, component, distinctPrev, activeInner, blurTimers,
                 emitted, network, applied, lateStale, selections, reqChange,
                 logging, blurHistory>>

\* Variant: the filter tests the untrimmed value.
PassesFilterNoTrim(val) == Len(val) > 0

PassesFilter(val) == Len(Trim(val)) > 0

PassesDistinct(val) == ~distinctPrev.has \/ distinctPrev.val # val

SuggestRequest(prefix) == [prefix |-> prefix, k |-> DefaultK]

\* Variant: accepting a value clears the pending onBlur timers.
DebounceFireClearsBlur ==
  /\ sub = "open"
  /\ debounce.armed
  /\ debounce.left = 0
  /\ debounce' = NoTimer
  /\ LET val == debounce.val
         prefix == Trim(val)
     IN IF PassesFilter(val) /\ PassesDistinct(val)
        THEN /\ distinctPrev' = [has |-> TRUE, val |-> val]
             /\ isOpen' = TRUE
             /\ lastQueryForImpression' = prefix
             /\ requests' = Append(requests, SuggestRequest(prefix))
             /\ activeInner' = Len(requests) + 1
             /\ reqChange' = Append(reqChange, nChanges)
             /\ lateClose' = FALSE
             /\ blurTimers' = <<>>
             /\ blurInfo' = <<>>
        ELSE UNCHANGED <<distinctPrev, isOpen, lastQueryForImpression,
                         requests, activeInner, reqChange, lateClose,
                         blurTimers, blurInfo>>
  /\ UNCHANGED <<phase, sub, searchControl, suggestions, lastCandidates,
                 network, impressions, clicks, applied,
                 lateStale, selections, inputHistory, logging>>

\* The debounce delay has run out: the pending value goes through filter,
\* distinctUntilChanged, the opening tap and switchMap.
DebounceFire ==
  /\ sub = "open"
  /\ debounce.armed
  /\ debounce.left = 0
  /\ debounce' = NoTimer
  /\ LET val == debounce.val
         prefix == Trim(val)
     IN IF PassesFilter(val) /\ PassesDistinct(val)
        THEN /\ distinctPrev' = [has |-> TRUE, val |-> val]
             /\ isOpen' = TRUE
             /\ lastQueryForImpression' = prefix
             /\ requests' = Append(requests, SuggestRequest(prefix))
             /\ activeInner' = Len(requests) + 1
             /\ reqChange' = Append(reqChange, nChanges)
             /\ lateClose' = FALSE
        ELSE UNCHANGED <<distinctPrev, isOpen, lastQueryForImpression,
                         requests, activeInner, reqChange, lateClose>>
  /\ UNCHANGED <<phase, sub, searchControl, suggestions, lastCandidates,
                 blurTimers, network, impressions, clicks, applied,
                 lateStale, selections, inputHistory, logging, blurInfo>>

\* Variant: mergeMap, which stays subscribed to every request it made.
IsCurrentMerge(id) == sub = "open"

\* switchMap delivers the outcome of a request only while that request is
\* the one it is subscribed to.
IsCurrent(id) == sub = "open" /\ id = activeInner

ResultSuggestions(res) == IF res.hasSuggestions THEN res.suggestions ELSE <<>>

CandidateTexts(sugs) == [i \in 1..Len(sugs) |-> sugs[i].text]

\* Variant: the impression is logged for an empty result too.
ShouldLogImpressionAlways(cands) == Len(cands) >= 0

ShouldLogImpression(cands) == Len(cands) > 0

\* Variant: the impression carries the live text of the input.
ImpressionForInputText(query, cands) ==
  [type |-> "impression", query |-> searchControl, candidates |-> cands,
   clicked |-> Null]

ImpressionFor(query, cands) ==
  [type |-> "impression", query |-> query, candidates |-> cands,
   clicked |-> Null]

\* The POST /log_event call that carries impressions[idx] or clicks[idx].
LogCall(kind, idx) == [kind |-> kind, idx |-> idx]

\* A newer request than id has had its response applied.
NewerApplied(id) == \E i \in 1..Len(applied) : applied[i].req > id

\* Variant: the panel is opened when a result is applied.
ResponseOkOpens(id, res) ==
  /\ id \in InFlight
  /\ answered' = answered \cup {id}
  /\ IF IsCurrent(id)
     THEN /\ suggestions' = ResultSuggestions(res)
          /\ lastCandidates' = CandidateTexts(suggestions')
          /\ isOpen' = TRUE
          /\ impressions' =
               IF ShouldLogImpression(lastCandidates')
               THEN Append(impressions,
                           ImpressionFor(lastQueryForImpression, lastCandidates'))
               ELSE impressions
          /\ logPending' =
               IF ShouldLogImpression(lastCandidates')
               THEN logPending \cup {LogCall("impression", Len(impressions'))}
               ELSE logPending
          /\ applied' = Append(applied, [req |-> id, res |-> res])
     ELSE UNCHANGED <<suggestions, lastCandidates, isOpen, impressions,
                      logPending, applied>>
  /\ lateStale' = IF NewerApplied(id) THEN lateStale \cup {id} ELSE lateStale
  /\ UNCHANGED <<phase, sub, searchControl, lastQueryForImpression,
                 pipeline, blurTimers, requests, failures, clicks, selections,
                 inputHistory, reqChange, logFailed, blurHistory>>

\* A request is answered with a body.
ResponseOk(id, res) ==
  /\ id \in InFlight
  /\ answered' = answered \cup {id}
  /\ IF IsCurrent(id)
     THEN /\ suggestions' = ResultSuggestions(res)
          /\ lastCandidates' = CandidateTexts(suggestions')
          /\ impressions' =
               IF ShouldLogImpression(lastCandidates')
               THEN Append(impressions,
                           ImpressionFor(lastQueryForImpression, lastCandidates'))
               ELSE impressions
          /\ logPending' =
               IF ShouldLogImpression(lastCandidates')
               THEN logPending \cup {LogCall("impression", Len(impressions'))}
               ELSE logPending
          /\ applied' = Append(applied, [req |-> id, res |-> res])
     ELSE UNCHANGED <<suggestions, lastCandidates, impressions, logPending,
                      applied>>
  /\ lateStale' = IF NewerApplied(id) THEN lateStale \cup {id} ELSE lateStale
  /\ UNCHANGED <<phase, sub, searchControl, isOpen, lastQueryForImpression,
                 pipeline, blurTimers, requests, failures, clicks, selections,
                 inputHistory, reqChange, logFailed, blurHistory>>

\* Variant: the failure of the current request is caught, the panel is
\* emptied and the pipeline goes on.
ResponseErrorClears(id) ==
  /\ id \in InFlight
  /\ answered' = answered \cup {id}
  /\ failures' = failures \cup {id}
  /\ IF IsCurrent(id)
     THEN /\ suggestions' = <<>>
          /\ lastCandidates' = <<>>
          /\ activeInner' = 0
     ELSE UNCHANGED <<suggestions, lastCandidates, activeInner>>
  /\ UNCHANGED <<phase, sub, searchControl, isOpen, lastQueryForImpression,
                 debounce, distinctPrev, blurTimers, emitted, history,
                 logging, blurHistory>>

\* A request fails.  The error of the current request goes through switchMap
\* and the result tap to subscribe(), which has no error handler: the
\* subscription ends and the debounce timer is released with it.
ResponseError(id) ==
  /\ id \in InFlight
  /\ answered' = answered \cup {id}
  /\ failures' = failures \cup {id}
  /\ IF IsCurrent(id)
     THEN /\ sub' = "errored"
          /\ debounce' = NoTimer
          /\ activeInner' = 0
     ELSE UNCHANGED <<sub, debounce, activeInner>>
  /\ UNCHANGED <<phase, searchControl, component, distinctPrev, blurTimers,
                 emitted, history, logging, blurHistory>>

\* Variant: the click reports the text of the input box.
ClickQueryInputText == searchControl

ClickQuery ==
  IF Len(lastQueryForImpression) > 0 THEN lastQueryForImpression
  ELSE searchControl

\* Variant: the click reports the first candidate shown, not the one chosen.
ClickEventForFirstCandidate(query, s) ==
  [type |-> "click", query |-> query, candidate |-> lastCandidates[1]]

ClickEventFor(query, s) ==
  [type |-> "click", query |-> query, candidate |-> s.text]

\* Query of the request whose response the panel shows; has = FALSE while
\* no response has been applied.
Shown ==
  IF Len(applied) = 0 THEN [has |-> FALSE, query |-> EmptyString]
  ELSE [has |-> TRUE, query |-> requests[Last(applied).req].prefix]

\* Variant: setValue without emitEvent: false, so the selected text enters
\* the pipe as an input change does.
onSuggestionClickEmitting(s) ==
  /\ phase = "alive"
  /\ Len(selections) < MaxClicks
  /\ searchControl' = s.text
  /\ isOpen' = FALSE
  /\ lateClose' = FALSE
  /\ debounce' = IF sub = "open" THEN Reschedule(s.text) ELSE debounce
  /\ clicks' = Append(clicks, ClickEventFor(ClickQuery, s))
  /\ logPending' = logPending \cup {LogCall("click", Len(clicks'))}
  /\ selections' = Append(selections, [s |-> s, shown |-> Shown])
  /\ UNCHANGED <<phase, sub, suggestions, lastQueryForImpression,
                 lastCandidates, distinctPrev, activeInner, blurTimers,
                 requests, network, impressions, applied, lateStale,
                 inputHistory, reqChange, logFailed, blurInfo>>

\* Variant: the selection clears the pending debounce timer.
onSuggestionClickCancelling(s) ==
  /\ phase = "alive"
  /\ Len(selections) < MaxClicks
  /\ searchControl' = s.text
  /\ isOpen' = FALSE
  /\ lateClose' = FALSE
  /\ clicks' = Append(clicks, ClickEventFor(ClickQuery, s))
  /\ logPending' = logPending \cup {LogCall("click", Len(clicks'))}
  /\ selections' = Append(selections, [s |-> s, shown |-> Shown])
  /\ debounce' = NoTimer
  /\ UNCHANGED <<phase, sub, suggestions, lastQueryForImpression,
                 lastCandidates, distinctPrev, activeInner, blurTimers,
                 requests, network, impressions, applied, lateStale,
                 inputHistory, reqChange, logFailed, blurInfo>>

\* Variant: the selection resets distinctUntilChanged.
onSuggestionClickResetsDistinct(s) ==
  /\ phase = "alive"
  /\ Len(selections) < MaxClicks
  /\ searchControl' = s.text
  /\ isOpen' = FALSE
  /\ lateClose' = FALSE
  /\ clicks' = Append(clicks, ClickEventFor(ClickQuery, s))
  /\ logPending' = logPending \cup {LogCall("click", Len(clicks'))}
  /\ selections' = Append(selections, [s |-> s, shown |-> Shown])
  /\ UNCHANGED <<phase, sub, suggestions, lastQueryForImpression,
                 lastCandidates, debounce, activeInner, blurTimers,
                 requests, network, impressions, applied, lateStale,
                 inputHistory, reqChange, logFailed, blurInfo>>
  /\ distinctPrev' = NoPrev

onSuggestionClick(s) ==
  /\ phase = "alive"
  /\ Len(selections) < MaxClicks
  /\ searchControl' = s.text
  /\ isOpen' = FALSE
  /\ lateClose' = FALSE
  /\ clicks' = Append(clicks, ClickEventFor(ClickQuery, s))
  /\ logPending' = logPending \cup {LogCall("click", Len(clicks'))}
  /\ selections' = Append(selections, [s |-> s, shown |-> Shown])
  /\ UNCHANGED <<phase, sub, suggestions, lastQueryForImpression,
                 lastCandidates, pipeline, blurTimers, requests, network,
                 impressions, applied, lateStale, inputHistory, reqChange,
                 logFailed, blurInfo>>

\* Variant: the panel is closed in the call, without a delay.
onBlurClosesAtOnce ==
  /\ phase = "alive"
  /\ Len(blurTimers) < MaxBlurTimers
  /\ blurTimers' = Append(blurTimers, BlurMs)
  /\ blurInfo' = Append(blurInfo, [age |-> 0, open |-> isOpen])
  /\ lateClose' = lateClose
  /\ isOpen' = FALSE
  /\ UNCHANGED <<phase, sub, searchControl, suggestions,
                 lastQueryForImpression, lastCandidates, pipeline, emitted,
                 network, history, logging>>

onBlur ==
  /\ phase = "alive"
  /\ Len(blurTimers) < MaxBlurTimers
  /\ blurTimers' = Append(blurTimers, BlurMs)
  /\ blurInfo' = Append(blurInfo, [age |-> 0, open |-> isOpen])
  /\ lateClose' = lateClose
  /\ UNCHANGED <<phase, sub, searchControl, component, pipeline, emitted,
                 network, history, logging>>

\* The callback of the oldest onBlur timer runs.
BlurFire ==
  /\ Len(blurTimers) > 0
  /\ Head(blurTimers) = 0
  /\ blurTimers' = Tail(blurTimers)
  /\ isOpen' = FALSE
  /\ blurInfo' = Tail(blurInfo)
  /\ lateClose' = IF isOpen THEN ~Head(blurInfo).open ELSE lateClose
  /\ UNCHANGED <<phase, sub, searchControl, suggestions,
                 lastQueryForImpression, lastCandidates, pipeline, emitted,
                 network, history, logging>>

\* Variant: the subscription is not released.
ngOnDestroyKeepsSubscription ==
  /\ phase = "alive"
  /\ phase' = "destroyed"
  /\ UNCHANGED <<sub, debounce, activeInner>>
  /\ UNCHANGED <<searchControl, component, distinctPrev, blurTimers, emitted,
                 network, history, logging, blurHistory>>

\* unsubscribe() releases the debounce timer and the inner request; on a
\* subscription that has already ended it does nothing.
ngOnDestroy ==
  /\ phase = "alive"
  /\ phase' = "destroyed"
  /\ IF sub = "open"
     THEN /\ sub' = "unsubscribed"
          /\ debounce' = NoTimer
          /\ activeInner' = 0
     ELSE UNCHANGED <<sub, debounce, activeInner>>
  /\ UNCHANGED <<searchControl, component, distinctPrev, blurTimers, emitted,
                 network, history, logging, blurHistory>>

\* A log call succeeds: neither subscribe({error}) handler has a next
\* callback, nothing runs.
LogOk(call) ==
  /\ call \in logPending
  /\ logPending' = logPending \ {call}
  /\ UNCHANGED <<phase, sub, searchControl, component, pipeline, blurTimers,
                 emitted, network, history, logFailed, blurHistory>>

\* Variant: the log call is part of the pipe (its error is not caught by a
\* handler of its own), so its failure ends the subscription.
LogErrorEndsPipeline(call) ==
  /\ call \in logPending
  /\ logPending' = logPending \ {call}
  /\ logFailed' = logFailed \cup {call}
  /\ sub' = IF sub = "open" THEN "errored" ELSE sub
  /\ debounce' = NoTimer
  /\ activeInner' = 0
  /\ UNCHANGED <<phase, searchControl, component, distinctPrev, blurTimers,
                 emitted, network, history, blurHistory>>

\* A log call fails: its own error handler reports it with console.error.
LogError(call) ==
  /\ call \in logPending
  /\ logPending' = logPending \ {call}
  /\ logFailed' = logFailed \cup {call}
  /\ UNCHANGED <<phase, sub, searchControl, component, pipeline, blurTimers,
                 emitted, network, history, blurHistory>>

TimerLefts ==
  (IF debounce.armed THEN {debounce.left} ELSE {}) \cup
  {blurTimers[i] : i \in 1..Len(blurTimers)}

\* Time passes, at most up to the next deadline.
Tick ==
  /\ 0 \notin TimerLefts
  /\ TimerLefts # {} \/ (nChanges > 0 /\ sinceChange < DebounceMs)
  /\ LET d == Min(TimerLefts \cup {TickMs})
     IN /\ debounce' = IF debounce.armed
                       THEN [debounce EXCEPT !.left = @ - d]
                       ELSE debounce
        /\ blurTimers' = [i \in 1..Len(blurTimers) |-> blurTimers[i] - d]
        /\ sinceChange' = IF nChanges > 0
                          THEN Min({sinceChange + d, DebounceMs})
                          ELSE sinceChange
        /\ blurInfo' = [i \in 1..Len(blurInfo) |->
                          [blurInfo[i] EXCEPT !.age = @ + d]]
        /\ lateClose' = lateClose
  /\ UNCHANGED <<phase, sub, searchControl, component, distinctPrev,
                 activeInner, emitted, network, applied, lateStale,
                 selections, nChanges, lastInput, inBurst, reqChange,
                 logging>>

Next ==
  \/ ngOnInit
  \/ \E raw \in Inputs : onInputChanged(raw)
  \/ DebounceFire
  \/ \E id \in InFlight : \E res \in Responses : ResponseOk(id, res)
  \/ \E id \in InFlight : ResponseError(id)
  \/ \E s \in Range(suggestions) : onSuggestionClick(s)
  \/ onBlur
  \/ BlurFire
  \/ ngOnDestroy
  \/ Tick

\* The pipeline while the log calls it makes stay unanswered.
Spec == Init /\ [][Next]_vars

LogOutcome ==
  \/ \E call \in logPending : LogOk(call)
  \/ \E call \in logPending : LogError(call)

NextLogging ==
  \/ ngOnInit
  \/ \E raw \in Inputs : onInputChanged(raw)
  \/ DebounceFire
  \/ \E id \in InFlight : \E res \in Responses : ResponseOk(id, res)
  \/ \E id \in InFlight : ResponseError(id)
  \/ \E s \in Range(suggestions) : onSuggestionClick(s)
  \/ ngOnDestroy
  \/ Tick
  \/ LogOutcome

\* The pipeline together with the outcomes of its log calls, while the
\* input keeps the focus (no onBlur).
SpecLogging == Init /\ [][NextLogging]_vars

\* ------------------------------------------------------------------ claims

\* C1: the outcome of a request that arrives when a newer request has been
\* issued changes neither suggestions nor lastCandidates and logs no
\* impression, in whatever order the outcomes arrive.
C1_StaleResponseDiscarded ==
  [][\A id \in answered' \ answered :
       id < Len(requests) =>
         UNCHANGED <<suggestions, lastCandidates, impressions>>]_vars

\* A response arrived after the response of a newer request was applied,
\* and what the newer response put on display is still there.
C1_Witness ==
  /\ lateStale # {}
  /\ Len(suggestions) > 0
  /\ Len(impressions) = 1

\* C2: the query of every ClickEvent is the query of the request whose
\* response produced the suggestions on display when the selection was made.
C2_ClickQueryIsShownQuery ==
  \A i \in 1..Len(selections) :
    selections[i].shown.has => clicks[i].query = selections[i].shown.query

\* C3: once ngOnDestroy has run, no component state changes and no request,
\* impression or click is emitted.
C3_NoEffectAfterDestroy ==
  [][phase = "destroyed" =>
       UNCHANGED <<suggestions, isOpen, lastQueryForImpression,
                   lastCandidates, requests, impressions, clicks>>]_vars

\* C4: a burst of input changes less than 250 ms apart yields at most one
\* request, issued for the last value of the burst once 250 ms of quiet have
\* followed it; no earlier value of the burst yields a request.
C4_Debounce ==
  \A r \in 1..Len(requests) :
    LET c == reqChange[r]
    IN /\ \A q \in 1..Len(requests) : q # r => reqChange[q] # c
       /\ c < nChanges => ~inBurst[c]
       /\ c = nChanges =>
            /\ sinceChange >= DebounceMs
            /\ requests[r].prefix = Trim(lastInput)

\* A burst of two changes has ended and its last value has been requested.
C4_Witness ==
  /\ nChanges = 2
  /\ inBurst[1]
  /\ Len(requests) = 1
  /\ reqChange[1] = 2

\* C5: no two requests issued one after the other carry the same prefix.
C5_NoConsecutiveDuplicatePrefix ==
  \A i \in 1..(Len(requests) - 1) :
    requests[i].prefix # requests[i + 1].prefix

\* C6: the number of ImpressionEvents posted is the number of applied
\* responses with at least one suggestion; empty results, failures and
\* superseded responses add none.
C6_ImpressionCount ==
  Len(impressions) =
    Cardinality({i \in 1..Len(applied) :
                   /\ applied[i].res.hasSuggestions
                   /\ Len(applied[i].res.suggestions) > 0})

\* An empty and a non-empty response have been applied and a request failed.
C6_Witness ==
  /\ Len(applied) = 2
  /\ Len(impressions) = 1
  /\ \E i \in 1..2 : applied[i].res.hasSuggestions
                     /\ applied[i].res.suggestions = <<>>

\* C7: applying the response of the current request makes suggestions the
\* suggestions of that response, in order; an impression logged then has the
\* prefix of that request as query, their texts in order as candidates, and
\* clicked null.
C7_ResultApplication ==
  [][Len(applied') > Len(applied) =>
       LET a == Last(applied')
           sugs == IF a.res.hasSuggestions THEN a.res.suggestions ELSE <<>>
       IN /\ suggestions' = sugs
          /\ impressions' # impressions =>
               /\ Len(impressions') = Len(impressions) + 1
               /\ Last(impressions') =
                    [type |-> "impression",
                     query |-> requests[a.req].prefix,
                     candidates |-> [i \in 1..Len(sugs) |-> sugs[i].text],
                     clicked |-> Null]]_vars

\* A response with two suggestions is on display and its impression is the
\* last one logged, for a request typed with trailing white space.
C7_Witness ==
  /\ Len(applied) > 0
  /\ suggestions = <<S1, S2>>
  /\ Len(impressions) > 0
  /\ Last(impressions).candidates = <<S1.text, S2.text>>
  /\ Last(impressions).query # lastInput

\* C8: each onSuggestionClick(s) posts exactly one ClickEvent, whose
\* candidate is s.text, and no ImpressionEvent.
C8_OneClickPerSelection ==
  [][Len(selections') > Len(selections) =>
       /\ Len(clicks') = Len(clicks) + 1
       /\ SubSeq(clicks', 1, Len(clicks)) = clicks
       /\ Last(clicks').type = "click"
       /\ Last(clicks').candidate = Last(selections').s.text
       /\ impressions' = impressions]_vars

\* The second suggestion on display was selected while a request was in
\* flight.
C8_Witness ==
  /\ Len(selections) = 1
  /\ Last(selections).s = S2
  /\ InFlight # {}

\* C9: onSuggestionClick(s) sets the input text to s.text and isOpen to
\* false; it starts no debounce timer, issues no request and leaves
\* suggestions, lastCandidates and lastQueryForImpression unchanged.
C9_SelectionIsNotTyped ==
  [][Len(selections') > Len(selections) =>
       /\ searchControl' = Last(selections').s.text
       /\ isOpen' = FALSE
       /\ UNCHANGED <<debounce, distinctPrev, activeInner, requests,
                      suggestions, lastCandidates,
                      lastQueryForImpression>>]_vars

\* A selection was made with no debounce timer pending; the input shows the
\* selected text and no request was made for it.
C9_Witness ==
  /\ Len(selections) = 1
  /\ searchControl = Last(selections).s.text
  /\ ~debounce.armed
  /\ sub = "open"
  /\ ~isOpen
  /\ \A r \in 1..Len(requests) : requests[r].prefix # searchControl

\* C10: when the current request fails, suggestions and lastCandidates keep
\* their values, no impression is logged and no request is issued.
C10_FailureKeepsPanel ==
  [][\A id \in failures' \ failures :
       (sub = "open" /\ id = Len(requests)) =>
         UNCHANGED <<suggestions, lastCandidates, impressions,
                     requests>>]_vars

\* The current request failed while an earlier result was on display.
C10_Witness ==
  /\ Len(requests) \in failures
  /\ Len(suggestions) > 0
  /\ lastCandidates = <<S1.text, S2.text>>

\* C11: before disposal, whatever happened earlier (a failed request, an
\* empty result), an input change that is non-empty after trim, differs
\* from the last accepted value and is followed by 250 ms of quiet has a
\* request issued for it.
C11_QualifyingInputIsRequested ==
  (/\ phase = "alive"
   /\ nChanges > 0
   /\ sinceChange >= DebounceMs
   /\ ~debounce.armed
   /\ Len(Trim(lastInput)) > 0
   /\ distinctPrev.has => Trim(distinctPrev.val) # Trim(lastInput))
  => \E r \in 1..Len(requests) : reqChange[r] = nChanges

\* C12: the failure of an impression or click log call changes none of
\* suggestions, isOpen, the input text, lastQueryForImpression and
\* lastCandidates, and leaves the pipeline (subscription, pending debounce
\* timer, de-duplication value, current request) as it was, so later
\* requests are still issued.
C12_LogFailureChangesNothing ==
  [][logFailed' # logFailed =>
       UNCHANGED <<suggestions, isOpen, searchControl,
                   lastQueryForImpression, lastCandidates, sub, debounce,
                   distinctPrev, activeInner, requests, impressions,
                   clicks>>]_vars

\* An impression log call and a click log call have failed; the result and
\* the selection they report are still in place, the subscription is open
\* and a debounce timer is pending.
C12_Witness ==
  /\ \E f \in logFailed : f.kind = "impression"
  /\ \E f \in logFailed : f.kind = "click"
  /\ suggestions = <<S1, S2>>
  /\ searchControl = Last(selections).s.text
  /\ sub = "open"
  /\ debounce.armed

\* C13: isOpen is true from the step that issues a request, before any
\* response, and no step other than the issue of a request turns isOpen
\* from false to true.
C13_OptimisticOpen ==
  [][/\ Len(requests') > Len(requests) => isOpen'
     /\ (~isOpen /\ isOpen') => Len(requests') > Len(requests)]_vars

\* The panel is open while the only request made is unanswered.
C13_Witness ==
  /\ isOpen
  /\ Len(requests) = 1
  /\ InFlight = {1}
  /\ Len(applied) = 0

\* C14: when the debounce delay of a value of trimmed length 0 runs out,
\* no suggestion request is issued and suggestions, isOpen, lastCandidates
\* and lastQueryForImpression stay exactly as they were.
C14_EmptyInputDropped ==
  [][(/\ debounce.armed
      /\ debounce.left = 0
      /\ debounce' = NoTimer
      /\ sub' = "open"
      /\ Len(Trim(debounce.val)) = 0)
     => UNCHANGED <<requests, suggestions, isOpen, lastCandidates,
                    lastQueryForImpression>>]_vars

\* A blank value was debounced and dropped while the panel showed the
\* result of the one request made before it.
C14_Witness ==
  /\ sub = "open"
  /\ nChanges = 2
  /\ lastInput = <<" ">>
  /\ ~debounce.armed
  /\ sinceChange >= DebounceMs
  /\ isOpen
  /\ suggestions = <<S1, S2>>
  /\ Len(requests) = 1

\* C15: the step in which onBlur is called leaves isOpen and suggestions
\* as they are and emits no request, impression or click; the timer it
\* starts runs for 150 ms, stays pending for all of that time, and the step
\* in which it fires sets isOpen to false.
C15_BlurGraceDelay ==
  [][/\ Len(blurTimers') > Len(blurTimers)
          => /\ UNCHANGED <<isOpen, suggestions, emitted>>
             /\ Last(blurTimers') = BlurMs
     /\ \A i \in 1..Len(blurTimers) :
          blurTimers[i] + blurInfo[i].age = BlurMs
     /\ Len(blurTimers') < Len(blurTimers)
          => /\ Head(blurInfo).age = BlurMs
             /\ isOpen' = FALSE]_vars

\* 100 ms after onBlur the panel is still open and shows suggestions that
\* can be selected.
C15_Witness ==
  /\ Len(blurTimers) = 1
  /\ blurInfo[1].age = TickMs
  /\ blurInfo[1].open
  /\ isOpen
  /\ suggestions = <<S1, S2>>

\* C16: ngOnDestroy leaves no debounce timer pending; after it no
\* suggestion request is issued, and a response or failure that arrives
\* changes neither suggestions nor lastCandidates and submits no impression.
C16_DisposalCancelsPipeline ==
  [][/\ (phase = "alive" /\ phase' = "destroyed") => ~debounce'.armed
     /\ phase = "destroyed"
          => /\ requests' = requests
             /\ answered' # answered
                  => UNCHANGED <<suggestions, lastCandidates, impressions>>]_vars

\* ngOnDestroy ran while the first request was in flight and the debounce
\* timer of a second, different qualifying value was pending; the 250 ms have
\* passed and the first request has been answered with a body.
C16_Witness ==
  /\ phase = "destroyed"
  /\ Len(requests) = 1
  /\ answered = {1}
  /\ failures = {}
  /\ applied = <<>>
  /\ suggestions = <<>>
  /\ impressions = <<>>
  /\ nChanges = 2
  /\ reqChange[1] = 1
  /\ Trim(lastInput) # requests[1].prefix
  /\ Len(Trim(lastInput)) > 0
  /\ sinceChange >= DebounceMs

\* C17: once a request has been issued, the query of a click event is the
\* prefix of the request issued last before the click, whatever has become
\* of that request; lastQueryForImpression changes only in a step that
\* issues a request, and then to the prefix of that request.
C17_ClickQueryIsLastRequested ==
  [][/\ (Len(clicks') > Len(clicks) /\ Len(requests) > 0)
          => Last(clicks').query = Last(requests).prefix
     /\ lastQueryForImpression' # lastQueryForImpression
          => /\ Len(requests') > Len(requests)
             /\ lastQueryForImpression' = Last(requests').prefix]_vars

\* A suggestion of the first result was selected while a second request,
\* for another prefix, was in flight; the click carries the second prefix.
C17_Witness ==
  /\ Len(clicks) = 1
  /\ Len(requests) = 2
  /\ InFlight = {2}
  /\ Len(applied) = 1
  /\ requests[1].prefix # requests[2].prefix
  /\ clicks[1].query = requests[2].prefix

\* C18: a selection made while a debounce timer is pending leaves the
\* timer as it is; when the timer of a value that is no longer the text of
\* the input box runs out and the value passes the filter and
\* distinctUntilChanged, a request for its trimmed text is issued and isOpen
\* is set to true, while the input box keeps the selected text.
C18_SelectionKeepsDebounceTimer ==
  [][/\ (Len(selections') > Len(selections) /\ debounce.armed)
          => debounce' = debounce
     /\ (/\ debounce.armed
         /\ debounce.left = 0
         /\ debounce' = NoTimer
         /\ sub' = "open"
         /\ searchControl # debounce.val
         /\ PassesFilter(debounce.val)
         /\ PassesDistinct(debounce.val))
          => /\ requests' = Append(requests,
                                   SuggestRequest(Trim(debounce.val)))
             /\ isOpen' = TRUE
             /\ searchControl' = searchControl]_vars

\* A second value was typed, a suggestion was selected before its 250 ms
\* had passed, and then its request was issued: the panel is open again and
\* the input box shows the selected text, not the value requested.
C18_Witness ==
  /\ sub = "open"
  /\ Len(selections) = 1
  /\ searchControl = selections[1].s.text
  /\ searchControl # lastInput
  /\ nChanges = 2
  /\ Len(requests) = 2
  /\ reqChange[2] = 2
  /\ requests[2].prefix = Trim(lastInput)
  /\ isOpen

\* C19: an onBlur timer leaves the set of pending timers only by firing,
\* and the step in which it fires sets isOpen to false, whatever was
\* accepted since the call; no step restarts or delays a pending onBlur
\* timer.
C19_BlurTimerNeverCancelled ==
  [][/\ Len(blurTimers') < Len(blurTimers)
          => /\ Head(blurTimers) = 0
             /\ blurTimers' = Tail(blurTimers)
             /\ isOpen' = FALSE
     /\ Len(blurTimers') >= Len(blurTimers)
          => \A i \in 1..Len(blurTimers) : blurTimers'[i] <= blurTimers[i]]_vars

\* onBlur was called on a closed panel, a value was accepted and opened the
\* panel, and the timer of that onBlur call closed it while the request was
\* in flight.
C19_Witness ==
  /\ lateClose
  /\ ~isOpen
  /\ selections = <<>>
  /\ sub = "open"
  /\ InFlight # {}

\* C20: the value distinctUntilChanged compares with changes only in the
\* step in which a debounced value passes the filter, and then to that
\* value; when the debounce delay of a value equal to it runs out, no
\* request is issued and isOpen stays as it is.
C20_DistinctReference ==
  [][/\ distinctPrev' # distinctPrev
          => /\ debounce.armed
             /\ debounce.left = 0
             /\ PassesFilter(debounce.val)
             /\ distinctPrev' = [has |-> TRUE, val |-> debounce.val]
     /\ (/\ debounce.armed
         /\ debounce.left = 0
         /\ debounce' = NoTimer
         /\ sub' = "open"
         /\ distinctPrev.has
         /\ debounce.val = distinctPrev.val)
          => /\ requests' = requests
             /\ isOpen' = isOpen]_vars

\* After the value "a" was accepted and answered, the suggestion "aa" was
\* selected and the input was changed back to "a"; 250 ms later there is
\* still one request and the panel is closed.
C20_Witness ==
  /\ sub = "open"
  /\ Len(selections) = 1
  /\ selections[1].s = S2
  /\ nChanges = 2
  /\ lastInput = distinctPrev.val
  /\ searchControl = lastInput
  /\ ~debounce.armed
  /\ sinceChange >= DebounceMs
  /\ Len(requests) = 1
  /\ reqChange[1] = 1
  /\ ~isOpen

====
